---- MODULE Spec2Model ----
(***************************************************************************)
(* EventBot (FIFI.PY): a retrieval-augmented chatbot.  The model covers    *)
(* the filename / question classifiers, the PDF ingestion into the SQLite  *)
(* documents table, the process life cycle around the store connection,    *)
(* and the ask_question / clear_chat handlers with the prompt field of the *)
(* shared qa_chain object.                                                 *)
(*                                                                         *)
(* Python strings are sequences of one-character strings, so that lower(), *)
(* strip(), the `in` substring test and os.path.basename are computed.     *)
(* Category labels are the source's: MARIAGE (wedding), SALON (expo),      *)
(* CRÉATIVITÉ (creativity), BUDGET, PLANIFICATION (planning), SEMINAIRE    *)
(* (seminar, the fallback).                                                *)
(***************************************************************************)
EXTENDS Integers, Sequences, FiniteSets, TLC

VARIABLES
    fn_arg,         \* argument of a detect_type_from_filename call
    fn_ret,         \* its return value, NONE before the call
    pc,             \* position of the process in the module's top-level code
    conn,           \* the sqlite3 connection: "none", "open" or "closed"
    files,          \* the filesystem: path -> missing / corrupt / pdf pages
    PDF_PATHS,      \* the list of paths insert_pdfs iterates over
    documents,      \* rows of the documents table, in insertion order
    missing_files,  \* insert_pdfs' list of missing paths
    errors,         \* what insert_pdfs printed for the paths that threw
    prompt,         \* qa_chain.combine_documents_chain.llm_chain.prompt
    chatbot,        \* value of the Chatbot component: the history
    status_box,     \* value of the status Textbox
    calls           \* the ask_question calls: position and local variables

classifyVars == <<fn_arg, fn_ret>>
processVars == <<pc, conn, files, PDF_PATHS, documents, missing_files, errors>>
chatVars == <<prompt, chatbot, status_box, calls>>
vars == <<fn_arg, fn_ret, pc, conn, files, PDF_PATHS, documents, missing_files,
          errors, prompt, chatbot, status_box, calls>>

NONE == "<none>"

(***************************************************************************)
(* Bounds of the model.                                                    *)
(***************************************************************************)
MaxWords == 2       \* a filename is built from at most MaxWords words
MaxPaths == 3       \* PDF_PATHS holds at most MaxPaths paths
NumCalls == 2       \* ask_question calls that can be in flight together
MaxExchanges == 2   \* question / answer pairs of a history, one call at a time
MaxRacing == 1      \* the same, with calls in flight together
MaxQWords == 2      \* a question is built from at most MaxQWords words

(***************************************************************************)
(* Python str operations.                                                  *)
(***************************************************************************)
UPPER == <<"A", "B", "C", "D", "E", "F", "G", "H", "I", "J", "K", "L", "M", "N", "O", "P", "Q", "R", "S", "T", "U", "V", "W", "X", "Y", "Z", "É", "È", "Ç", "Û">>
LOWER == <<"a", "b", "c", "d", "e", "f", "g", "h", "i", "j", "k", "l", "m", "n", "o", "p", "q", "r", "s", "t", "u", "v", "w", "x", "y", "z", "é", "è", "ç", "û">>

LowerOf ==
    [c \in {UPPER[i] : i \in 1..Len(UPPER)} |->
        LOWER[CHOOSE i \in 1..Len(UPPER) : UPPER[i] = c]]

LowerChar(c) == IF c \in DOMAIN LowerOf THEN LowerOf[c] ELSE c

\* str.lower()
lower(s) == [i \in 1..Len(s) |-> LowerChar(s[i])]

\* word in s  (substring test)
In(word, s) ==
    \E i \in 0..(Len(s) - Len(word)) : SubSeq(s, i + 1, i + Len(word)) = word

\* any(word in q for word in words)
any_in(words, q) == \E k \in 1..Len(words) : In(words[k], q)

(***************************************************************************)
(* detect_type_from_filename: the if / elif chain on the lowered name.     *)
(***************************************************************************)
detect_type_from_filename_budget_first(filename) ==
    LET fname == lower(filename) IN
    IF In(<<"b", "u", "d", "g", "e", "t">>, fname) \/ In(<<"f", "i", "n", "a", "n", "c", "e">>, fname) THEN "BUDGET"
    ELSE IF In(<<"m", "a", "r", "i", "a", "g", "e">>, fname) THEN "MARIAGE"
    ELSE IF In(<<"l", "o", "g", "i", "s", "t", "i", "q", "u", "e">>, fname) \/ In(<<"c", "o", "n", "f", "e", "r", "e", "n", "c", "e">>, fname) THEN "SEMINAIRE"
    ELSE IF In(<<"s", "a", "l", "o", "n">>, fname) THEN "SALON"
    ELSE IF In(<<"t", "h", "e", "m", "e">>, fname) \/ In(<<"i", "d", "e", "e">>, fname)
            \/ In(<<"c", "r", "e", "a", "t", "i", "f">>, fname) \/ In(<<"a", "m", "b", "i", "a", "n", "c", "e">>, fname) THEN "CRÉATIVITÉ"
    ELSE IF In(<<"p", "l", "a", "n", "n", "i", "n", "g">>, fname) \/ In(<<"p", "r", "o", "g", "r", "a", "m", "m", "e">>, fname) THEN "PLANIFICATION"
    ELSE "SEMINAIRE"

detect_type_from_filename(filename) ==
    LET fname == lower(filename) IN
    IF In(<<"m", "a", "r", "i", "a", "g", "e">>, fname) THEN "MARIAGE"
    ELSE IF In(<<"l", "o", "g", "i", "s", "t", "i", "q", "u", "e">>, fname) \/ In(<<"c", "o", "n", "f", "e", "r", "e", "n", "c", "e">>, fname) THEN "SEMINAIRE"
    ELSE IF In(<<"s", "a", "l", "o", "n">>, fname) THEN "SALON"
    ELSE IF In(<<"t", "h", "e", "m", "e">>, fname) \/ In(<<"i", "d", "e", "e">>, fname)
            \/ In(<<"c", "r", "e", "a", "t", "i", "f">>, fname) \/ In(<<"a", "m", "b", "i", "a", "n", "c", "e">>, fname) THEN "CRÉATIVITÉ"
    ELSE IF In(<<"b", "u", "d", "g", "e", "t">>, fname) \/ In(<<"f", "i", "n", "a", "n", "c", "e">>, fname) THEN "BUDGET"
    ELSE IF In(<<"p", "l", "a", "n", "n", "i", "n", "g">>, fname) \/ In(<<"p", "r", "o", "g", "r", "a", "m", "m", "e">>, fname) THEN "PLANIFICATION"
    ELSE "SEMINAIRE"

(***************************************************************************)
(* Inputs of the classifier check: filenames made of up to MaxWords words. *)
(***************************************************************************)
FileWords ==
    { <<"m", "a", "r", "i", "a", "g", "e">>, <<"M", "a", "r", "i", "a", "g", "e", "_">>, <<"M", "A", "R", "I", "A", "G", "E">>, <<"l", "o", "g", "i", "s", "t", "i", "q", "u", "e">>, <<"C", "o", "n", "f", "e", "r", "e", "n", "c", "e">>,
      <<"s", "a", "l", "o", "n">>, <<"t", "h", "e", "m", "e">>, <<"i", "d", "e", "e">>, <<"c", "r", "e", "a", "t", "i", "f">>, <<"A", "m", "b", "i", "a", "n", "c", "e">>, <<"b", "u", "d", "g", "e", "t">>,
      <<"B", "U", "D", "G", "E", "T", "_">>, <<"f", "i", "n", "a", "n", "c", "e">>, <<"p", "l", "a", "n", "n", "i", "n", "g">>, <<"p", "r", "o", "g", "r", "a", "m", "m", "e">>, <<"r", "a", "p", "p", "o", "r", "t">>,
      <<"t", "o", " ", "d", "o", " ", "l", "i", "s", "t", " ">>, <<".", "p", "d", "f">> }

RECURSIVE Concats(_, _)
Concats(words, n) ==
    IF n = 0 THEN {<<>>}
    ELSE LET shorter == Concats(words, n - 1) IN
         shorter \cup {s \o w : s \in shorter, w \in words}

Filenames == Concats(FileWords, MaxWords)

(***************************************************************************)
(* Filesystem and PDF extraction (os.path.exists, PyPDFLoader.load).       *)
(***************************************************************************)
Paths == { <<"p", "d", "f", "s", "/", "m", "a", "r", "i", "a", "g", "e", ".", "p", "d", "f">>, <<"o", "l", "d", "/", "m", "a", "r", "i", "a", "g", "e", ".", "p", "d", "f">>, <<"p", "d", "f", "s", "/", "s", "a", "l", "o", "n", ".", "p", "d", "f">> }

ErrorMessages == {"EOF marker not found", "Permission denied"}
PdfPages == { <<"v1">>, <<"v2", "v2 page 2">> }

FileStates ==
    {[kind |-> "missing"]}
    \cup {[kind |-> "corrupt", msg |-> m] : m \in ErrorMessages}
    \cup {[kind |-> "pdf", pages |-> pp] : pp \in PdfPages}

RECURSIVE Lists(_, _)
Lists(S, n) ==
    IF n = 0 THEN {<<>>}
    ELSE LET shorter == Lists(S, n - 1) IN
         shorter \cup {Append(l, x) : l \in shorter, x \in S}

PathLists == Lists(Paths, MaxPaths)

\* os.path.basename: what follows the last "/"
basename(path) ==
    LET slashes == {i \in 1..Len(path) : path[i] = "/"} IN
    IF slashes = {} THEN path
    ELSE SubSeq(path, (CHOOSE i \in slashes : \A j \in slashes : j <= i) + 1, Len(path))

\* sep.join(parts), a text being the sequence of its pieces
RECURSIVE join(_, _)
join(sep, parts) ==
    IF Len(parts) = 0 THEN <<>>
    ELSE IF Len(parts) = 1 THEN <<parts[1]>>
    ELSE <<parts[1], sep>> \o join(sep, Tail(parts))

(***************************************************************************)
(* insert_pdfs.  st is the state the loop works on: the table as the       *)
(* connection sees it, missing_files and the printed extraction errors.    *)
(***************************************************************************)
title_count(rows, title) == Cardinality({i \in 1..Len(rows) : rows[i].title = title})

new_row(rows, pdf_path, fs) ==
    [id |-> Len(rows) + 1,
     title |-> basename(pdf_path),
     content |-> join("\n", fs[pdf_path].pages),
     type |-> detect_type_from_filename(basename(pdf_path))]

\* variant: the SELECT COUNT(*) test is dropped
insert_one_no_dedup(st, pdf_path, fs) ==
    IF fs[pdf_path].kind = "missing"
    THEN [st EXCEPT !.missing_files = Append(@, pdf_path)]
    ELSE IF fs[pdf_path].kind = "corrupt"
    THEN [st EXCEPT !.errors = Append(@, <<pdf_path, fs[pdf_path].msg>>)]
    ELSE [st EXCEPT !.documents = Append(@, new_row(st.documents, pdf_path, fs))]

\* variant: an existing row is refreshed with the file's current text
insert_one_upsert(st, pdf_path, fs) ==
    IF fs[pdf_path].kind = "missing"
    THEN [st EXCEPT !.missing_files = Append(@, pdf_path)]
    ELSE IF fs[pdf_path].kind = "corrupt"
    THEN [st EXCEPT !.errors = Append(@, <<pdf_path, fs[pdf_path].msg>>)]
    ELSE IF title_count(st.documents, basename(pdf_path)) = 0
    THEN [st EXCEPT !.documents = Append(@, new_row(st.documents, pdf_path, fs))]
    ELSE [st EXCEPT !.documents =
             [i \in 1..Len(@) |->
                 IF @[i].title = basename(pdf_path)
                 THEN [@[i] EXCEPT !.content = join("\n", fs[pdf_path].pages)]
                 ELSE @[i]]]

\* one iteration of the for loop (lines 69-85)
insert_one(st, pdf_path, fs) ==
    IF fs[pdf_path].kind = "missing"
    THEN [st EXCEPT !.missing_files = Append(@, pdf_path)]
    ELSE IF fs[pdf_path].kind = "corrupt"
    THEN [st EXCEPT !.errors = Append(@, <<pdf_path, fs[pdf_path].msg>>)]
    ELSE IF title_count(st.documents, basename(pdf_path)) = 0
    THEN [st EXCEPT !.documents = Append(@, new_row(st.documents, pdf_path, fs))]
    ELSE st

\* variant: the exception of a failing extraction ends the loop
RECURSIVE insert_loop_abort(_, _, _)
insert_loop_abort(st, paths, fs) ==
    IF paths = <<>> THEN st
    ELSE IF fs[Head(paths)].kind = "corrupt"
    THEN [st EXCEPT !.errors = Append(@, <<Head(paths), fs[Head(paths)].msg>>)]
    ELSE insert_loop_abort(insert_one(st, Head(paths), fs), Tail(paths), fs)

\* the for loop over PDF_PATHS
RECURSIVE insert_loop(_, _, _)
insert_loop(st, paths, fs) ==
    IF paths = <<>> THEN st
    ELSE insert_loop(insert_one(st, Head(paths), fs), Tail(paths), fs)

(***************************************************************************)
(* detect_event_type: the if / elif chain on the lowered question.         *)
(***************************************************************************)
\* variant: the budget rule is tested before the others
detect_event_type_budget_first(question) ==
    LET q == lower(question) IN
    IF any_in(<<<<"b", "u", "d", "g", "e", "t">>, <<"f", "i", "n", "a", "n", "c", "e", "m", "e", "n", "t">>, <<"c", "o", "û", "t">>, <<"p", "r", "i", "x">>>>, q) THEN "BUDGET"
    ELSE IF any_in(<<<<"m", "a", "r", "i", "a", "g", "e">>, <<"n", "o", "c", "e", "s">>, <<"f", "i", "a", "n", "ç", "a", "i", "l", "l", "e", "s">>>>, q) THEN "MARIAGE"
    ELSE IF any_in(<<<<"s", "a", "l", "o", "n">>, <<"e", "x", "p", "o", "s", "i", "t", "i", "o", "n">>, <<"s", "t", "a", "n", "d">>>>, q) THEN "SALON"
    ELSE IF any_in(<<<<"a", "m", "b", "i", "a", "n", "c", "e">>, <<"t", "h", "è", "m", "e">>, <<"d", "é", "c", "o", "r", "a", "t", "i", "o", "n">>, <<"i", "d", "é", "e", "s">>,
                     <<"c", "r", "é", "a", "t", "i", "f">>>>, q) THEN "CRÉATIVITÉ"
    ELSE IF any_in(<<<<"p", "l", "a", "n", "n", "i", "n", "g">>, <<"p", "l", "a", "n", "i", "f", "i", "c", "a", "t", "i", "o", "n">>, <<"é", "t", "a", "p", "e", "s">>,
                     <<"p", "r", "o", "g", "r", "a", "m", "m", "e">>>>, q) THEN "PLANIFICATION"
    ELSE "SEMINAIRE"

detect_event_type(question) ==
    LET q == lower(question) IN
    IF any_in(<<<<"m", "a", "r", "i", "a", "g", "e">>, <<"n", "o", "c", "e", "s">>, <<"f", "i", "a", "n", "ç", "a", "i", "l", "l", "e", "s">>>>, q) THEN "MARIAGE"
    ELSE IF any_in(<<<<"s", "a", "l", "o", "n">>, <<"e", "x", "p", "o", "s", "i", "t", "i", "o", "n">>, <<"s", "t", "a", "n", "d">>>>, q) THEN "SALON"
    ELSE IF any_in(<<<<"a", "m", "b", "i", "a", "n", "c", "e">>, <<"t", "h", "è", "m", "e">>, <<"d", "é", "c", "o", "r", "a", "t", "i", "o", "n">>, <<"i", "d", "é", "e", "s">>,
                     <<"c", "r", "é", "a", "t", "i", "f">>>>, q) THEN "CRÉATIVITÉ"
    ELSE IF any_in(<<<<"b", "u", "d", "g", "e", "t">>, <<"f", "i", "n", "a", "n", "c", "e", "m", "e", "n", "t">>, <<"c", "o", "û", "t">>, <<"p", "r", "i", "x">>>>, q) THEN "BUDGET"
    ELSE IF any_in(<<<<"p", "l", "a", "n", "n", "i", "n", "g">>, <<"p", "l", "a", "n", "i", "f", "i", "c", "a", "t", "i", "o", "n">>, <<"é", "t", "a", "p", "e", "s">>,
                     <<"p", "r", "o", "g", "r", "a", "m", "m", "e">>>>, q) THEN "PLANIFICATION"
    ELSE "SEMINAIRE"

(***************************************************************************)
(* The prompt templates, each named by the text of its closing line.       *)
(***************************************************************************)
prompt_map ==
    [e \in {"BUDGET", "PLANIFICATION", "SEMINAIRE", "MARIAGE", "SALON", "CRÉATIVITÉ"} |->
        CASE e = "BUDGET"        -> "BUDGET:"
          [] e = "PLANIFICATION" -> "PLAN D'ACTION:"
          [] e = "SEMINAIRE"     -> "RÉPONSE:"
          [] e = "MARIAGE"       -> "CONSEIL:"
          [] e = "SALON"         -> "STRATÉGIE:"
          [] e = "CRÉATIVITÉ"    -> "IDÉES:"]

default_prompt == prompt_map["SEMINAIRE"]

\* prompt_map.get(event_type, default_prompt)
prompt_map_get(event_type) ==
    IF event_type \in DOMAIN prompt_map THEN prompt_map[event_type] ELSE default_prompt

(***************************************************************************)
(* ask_question and clear_chat.                                            *)
(***************************************************************************)
WHITESPACE == {" ", "\t", "\n", "\r"}

\* variant: the question is tested without strip()
strip_nothing(s) == s

\* str.strip(): leading and trailing whitespace removed
strip(s) ==
    LET keep == {i \in 1..Len(s) : s[i] \notin WHITESPACE} IN
    IF keep = {} THEN <<>>
    ELSE SubSeq(s, CHOOSE i \in keep : \A j \in keep : i <= j,
                   CHOOSE i \in keep : \A j \in keep : j <= i)

EMPTY_QUESTION_STATUS == "Entrez une question."
NO_ANSWER == "Je n'ai pas de réponse."
GENERATION_ERROR == "Erreur lors de la génération."

\* what qa_chain.invoke can do: return a dict, with or without the "result"
\* key, or raise
Outcomes ==
    { [raises |-> FALSE, result |-> [k \in {"result"} |-> "réponse du modèle"]],
      [raises |-> FALSE, result |-> [k \in {} |-> ""]],
      [raises |-> TRUE] }

\* lines 251-256: the try / except around the generation
answer_of(outcome) ==
    IF outcome.raises THEN GENERATION_ERROR
    ELSE IF "result" \in DOMAIN outcome.result THEN outcome.result["result"]
    ELSE NO_ANSWER

\* variant: the assistant turn is appended before the user turn
append_turns_swapped(chat_display, question, answer) ==
    chat_display \o <<[role |-> "assistant", content |-> answer],
                      [role |-> "user", content |-> question]>>

\* variant: an error answer is not recorded in the history
append_turns_skip_error(chat_display, question, answer) ==
    IF answer = GENERATION_ERROR THEN chat_display
    ELSE chat_display \o <<[role |-> "user", content |-> question],
                           [role |-> "assistant", content |-> answer]>>

\* lines 258-259: the two appends
append_turns(chat_display, question, answer) ==
    chat_display \o <<[role |-> "user", content |-> question],
                      [role |-> "assistant", content |-> answer]>>

Calls == 1..NumCalls

IdleCall ==
    [at |-> "idle", question |-> <<>>, chat_display |-> <<>>, raised |-> FALSE,
     answer |-> NONE, used |-> NONE, status |-> NONE]

ChatIdle ==
    /\ prompt = default_prompt
    /\ chatbot = <<>>
    /\ status_box = ""
    /\ calls = [c \in Calls |-> IdleCall]

ProcessIdle ==
    /\ pc = "start"
    /\ conn = "none"
    /\ files = [p \in Paths |-> [kind |-> "missing"]]
    /\ PDF_PATHS = <<>>
    /\ documents = <<>>
    /\ missing_files = <<>>
    /\ errors = <<>>

ClassifyIdle ==
    /\ fn_arg = <<>>
    /\ fn_ret = NONE

NoneInFlight == \A c \in Calls : calls[c].at = "idle"

\* lines 244-249: gradio calls ask_question(question, chat_display) with the
\* values of the inputs; a blank question returns at once, otherwise the
\* prompt of the question's category is written into the shared chain
AskQuestion(c, question) ==
    /\ calls[c].at = "idle"
    /\ IF strip(question) = <<>>
       THEN /\ calls' = [calls EXCEPT ![c] =
                    [IdleCall EXCEPT !.at = "returned", !.question = question,
                                     !.chat_display = chatbot,
                                     !.status = EMPTY_QUESTION_STATUS]]
            /\ UNCHANGED prompt
       ELSE /\ calls' = [calls EXCEPT ![c] =
                    [IdleCall EXCEPT !.at = "invoke", !.question = question,
                                     !.chat_display = chatbot]]
            /\ prompt' = prompt_map_get(detect_event_type(question))
    /\ UNCHANGED <<chatbot, status_box, classifyVars, processVars>>

\* lines 251-256: qa_chain.invoke renders the prompt the chain holds now
Invoke(c, outcome) ==
    /\ calls[c].at = "invoke"
    /\ calls' = [calls EXCEPT ![c].at = "append",
                              ![c].used = prompt,
                              ![c].raised = outcome.raises,
                              ![c].answer = answer_of(outcome)]
    /\ UNCHANGED <<prompt, chatbot, status_box, classifyVars, processVars>>

\* lines 258-260: the turns are appended to the list, which is returned
\* with an empty status
AskQuestionReturn(c) ==
    /\ calls[c].at = "append"
    /\ calls' = [calls EXCEPT ![c].at = "returned",
                              ![c].chat_display = append_turns(calls[c].chat_display,
                                                     calls[c].question, calls[c].answer),
                              ![c].status = ""]
    /\ UNCHANGED <<prompt, chatbot, status_box, classifyVars, processVars>>

\* lines 265 and 267: outputs=[chatbot, status_box]
Deliver(c) ==
    /\ calls[c].at = "returned"
    /\ chatbot' = calls[c].chat_display
    /\ status_box' = calls[c].status
    /\ calls' = [calls EXCEPT ![c] = IdleCall]
    /\ UNCHANGED <<prompt, classifyVars, processVars>>

\* lines 262-263 and 266: clear_chat
ClearChat ==
    /\ chatbot' = <<>>
    /\ status_box' = ""
    /\ UNCHANGED <<prompt, calls, classifyVars, processVars>>

(***************************************************************************)
(* Questions.                                                              *)
(***************************************************************************)
BLANK_QUESTIONS == { <<>>, <<" ", " ">>, <<" ", "\t", "\n">> }

ChatQuestions ==
    BLANK_QUESTIONS
    \cup { <<"Q", "u", "e", "l", " ", "b", "u", "d", "g", "e", "t", " ", "p", "o", "u", "r", " ", "u", "n", " ", "m", "a", "r", "i", "a", "g", "e", "?">>, <<" ", "P", "r", "i", "x", " ", "d", "'", "u", "n", " ", "S", "T", "A", "N", "D", " ", "?">>, <<"B", "o", "n", "j", "o", "u", "r">> }

RacingQuestions == { <<"Q", "u", "e", "l", " ", "b", "u", "d", "g", "e", "t", " ", "p", "o", "u", "r", " ", "u", "n", " ", "m", "a", "r", "i", "a", "g", "e", "?">>, <<" ", "P", "r", "i", "x", " ", "d", "'", "u", "n", " ", "S", "T", "A", "N", "D", " ", "?">>, <<" ", " ">> }

QuestionWords ==
    { <<"Q", "u", "e", "l", " ">>, <<"m", "a", "r", "i", "a", "g", "e", " ">>, <<"N", "O", "C", "E", "S", " ">>, <<"s", "t", "a", "n", "d", " ">>, <<"I", "D", "É", "E", "S", " ">>, <<"b", "u", "d", "g", "e", "t", " ">>,
      <<"C", "o", "û", "t", " ">>, <<"p", "l", "a", "n", "n", "i", "n", "g", " ">>, <<"É", "t", "a", "p", "e", "s", " ">>, <<"?">> }

AskQuestions ==
    Concats(QuestionWords, MaxQWords)
    \cup { <<"Q", "u", "e", "l", " ", "b", "u", "d", "g", "e", "t", " ", "p", "o", "u", "r", " ", "u", "n", " ", "m", "a", "r", "i", "a", "g", "e", "?">>, <<"\t", "\n">> }

InitChat ==
    /\ ChatIdle
    /\ ClassifyIdle
    /\ ProcessIdle

(***************************************************************************)
(* Calls in flight together: gradio runs the click and the submit          *)
(* listeners, and the requests of different browsers, in worker threads.   *)
(***************************************************************************)
NextRacing ==
    \/ \E c \in Calls, q \in RacingQuestions :
          Len(chatbot) < 2 * MaxRacing /\ AskQuestion(c, q)
    \/ \E c \in Calls, o \in Outcomes : Invoke(c, o)
    \/ \E c \in Calls : AskQuestionReturn(c)
    \/ \E c \in Calls : Deliver(c)
    \/ ClearChat

SpecRacing == InitChat /\ [][NextRacing]_vars

(***************************************************************************)
(* One session, one call at a time (the request / response model).         *)
(***************************************************************************)
NextSession ==
    \/ \E c \in Calls, q \in ChatQuestions :
          NoneInFlight /\ Len(chatbot) < 2 * MaxExchanges /\ AskQuestion(c, q)
    \/ \E c \in Calls, o \in Outcomes : Invoke(c, o)
    \/ \E c \in Calls : AskQuestionReturn(c)
    \/ \E c \in Calls : Deliver(c)
    \/ NoneInFlight /\ ClearChat

SpecSession == InitChat /\ [][NextSession]_vars

(***************************************************************************)
(* One question asked alone on an empty history, over many questions.      *)
(***************************************************************************)
NextAsk ==
    \/ \E c \in Calls, q \in AskQuestions :
          NoneInFlight /\ chatbot = <<>> /\ AskQuestion(c, q)
    \/ \E c \in Calls, o \in Outcomes : Invoke(c, o)
    \/ \E c \in Calls : AskQuestionReturn(c)
    \/ \E c \in Calls : Deliver(c)
    \/ NoneInFlight /\ ClearChat

SpecAsk == InitChat /\ [][NextAsk]_vars

(***************************************************************************)
(* The process: the module's top-level code from the opening of the        *)
(* connection to the try / finally around interface.launch.  The database  *)
(* file outlives the process, so documents is kept over a restart.         *)
(***************************************************************************)
\* the list of paths is edited before a start: a path is added
AddPath(path) ==
    /\ pc = "start"
    /\ Len(PDF_PATHS) < MaxPaths
    /\ PDF_PATHS' = Append(PDF_PATHS, path)
    /\ UNCHANGED <<pc, conn, files, documents, missing_files, errors, classifyVars, chatVars>>

\* the list of paths is edited before a start: the last path is removed
DropPath ==
    /\ pc = "start"
    /\ PDF_PATHS # <<>>
    /\ PDF_PATHS' = SubSeq(PDF_PATHS, 1, Len(PDF_PATHS) - 1)
    /\ UNCHANGED <<pc, conn, files, documents, missing_files, errors, classifyVars, chatVars>>

\* a file is added, removed, damaged or rewritten before a start
ChangeFile(path, state) ==
    /\ pc = "start"
    /\ files[path] # state
    /\ files' = [files EXCEPT ![path] = state]
    /\ UNCHANGED <<pc, conn, PDF_PATHS, documents, missing_files, errors, classifyVars, chatVars>>

\* lines 33-46: connect, CREATE TABLE IF NOT EXISTS, commit
OpenStore ==
    /\ pc = "start"
    /\ conn' = "open"
    /\ pc' = "opened"
    /\ UNCHANGED <<files, PDF_PATHS, documents, missing_files, errors, classifyVars, chatVars>>

\* line 36: sqlite3.connect raises, the process ends without a connection
OpenStoreRaises ==
    /\ pc = "start"
    /\ pc' = "terminated"
    /\ UNCHANGED <<conn, files, PDF_PATHS, documents, missing_files, errors, classifyVars, chatVars>>

\* line 92: insert_pdfs()
InsertPdfs ==
    /\ pc = "opened"
    /\ LET st == insert_loop([documents |-> documents, missing_files |-> <<>>,
                              errors |-> <<>>], PDF_PATHS, files) IN
        /\ documents' = st.documents
        /\ missing_files' = st.missing_files
        /\ errors' = st.errors
    /\ pc' = "ingested"
    /\ UNCHANGED <<conn, files, PDF_PATHS, classifyVars, chatVars>>

\* lines 206-213: create_retriever() and RetrievalQA.from_chain_type
CreateChain ==
    /\ pc = "ingested"
    /\ pc' = "chained"
    /\ UNCHANGED <<conn, files, PDF_PATHS, documents, missing_files, errors, classifyVars, chatVars>>

\* lines 232-267: the gr.Blocks interface is built
BuildInterface ==
    /\ pc = "chained"
    /\ pc' = "built"
    /\ UNCHANGED <<conn, files, PDF_PATHS, documents, missing_files, errors, classifyVars, chatVars>>

\* lines 206-267 are outside any try: an exception of the embedding model,
\* of FAISS or of gradio ends the process there
StartupRaises ==
    /\ pc \in {"ingested", "chained"}
    /\ pc' = "terminated"
    /\ UNCHANGED <<conn, files, PDF_PATHS, documents, missing_files, errors, classifyVars, chatVars>>

\* lines 270-272: the try block is entered, interface.launch serves
Launch ==
    /\ pc = "built"
    /\ pc' = "launched"
    /\ UNCHANGED <<conn, files, PDF_PATHS, documents, missing_files, errors, classifyVars, chatVars>>

\* lines 273-274: launch returned or raised, the finally clause closes
Finally ==
    /\ pc = "launched"
    /\ conn' = "closed"
    /\ pc' = "terminated"
    /\ UNCHANGED <<files, PDF_PATHS, documents, missing_files, errors, classifyVars, chatVars>>

\* the script is run again on the same database file
Restart ==
    /\ pc = "terminated"
    /\ pc' = "start"
    /\ conn' = "none"
    /\ missing_files' = <<>>
    /\ errors' = <<>>
    /\ UNCHANGED <<files, PDF_PATHS, documents, classifyVars, chatVars>>

Init ==
    /\ pc = "start"
    /\ conn = "none"
    /\ files \in [Paths -> FileStates]
    /\ PDF_PATHS \in PathLists
    /\ documents = <<>>
    /\ missing_files = <<>>
    /\ errors = <<>>
    /\ ClassifyIdle
    /\ ChatIdle

Next ==
    \/ \E path \in Paths : AddPath(path)
    \/ DropPath
    \/ \E path \in Paths, state \in FileStates : ChangeFile(path, state)
    \/ OpenStore
    \/ OpenStoreRaises
    \/ InsertPdfs
    \/ CreateChain
    \/ BuildInterface
    \/ StartupRaises
    \/ Launch
    \/ Finally
    \/ Restart

Spec == Init /\ [][Next]_vars

(***************************************************************************)
(* Specification of the filename classifier: a filename is drawn, the      *)
(* function is applied to it.                                              *)
(***************************************************************************)
InitFilename ==
    /\ fn_arg \in Filenames
    /\ fn_ret = NONE
    /\ ProcessIdle
    /\ ChatIdle

CallDetectTypeFromFilename ==
    /\ fn_ret = NONE
    /\ fn_ret' = detect_type_from_filename(fn_arg)
    /\ UNCHANGED <<fn_arg, processVars, chatVars>>

NextFilename == CallDetectTypeFromFilename

SpecFilename == InitFilename /\ [][NextFilename]_vars

(***************************************************************************)
(* Vocabulary of the claims.                                               *)
(***************************************************************************)
Categories ==
    {"MARIAGE", "SALON", "CRÉATIVITÉ", "BUDGET", "PLANIFICATION", "SEMINAIRE"}

\* keyword kw occurs in s, letter case ignored
ContainsCI(kw, s) ==
    \E i \in 0..(Len(s) - Len(kw)) :
        \A j \in 1..Len(kw) : LowerChar(s[i + j]) = kw[j]

\* category of the first rule of the table with a keyword in s, SEMINAIRE
\* when there is none
FirstMatch(rules, s) ==
    LET hits == {r \in 1..Len(rules) : \E kw \in rules[r][1] : ContainsCI(kw, s)} IN
    IF hits = {} THEN "SEMINAIRE"
    ELSE rules[CHOOSE r \in hits : \A o \in hits : r <= o][2]

FilenameRuleTable ==
    << <<{<<"m", "a", "r", "i", "a", "g", "e">>}, "MARIAGE">>,
       <<{<<"l", "o", "g", "i", "s", "t", "i", "q", "u", "e">>, <<"c", "o", "n", "f", "e", "r", "e", "n", "c", "e">>}, "SEMINAIRE">>,
       <<{<<"s", "a", "l", "o", "n">>}, "SALON">>,
       <<{<<"t", "h", "e", "m", "e">>, <<"i", "d", "e", "e">>, <<"c", "r", "e", "a", "t", "i", "f">>, <<"a", "m", "b", "i", "a", "n", "c", "e">>}, "CRÉATIVITÉ">>,
       <<{<<"b", "u", "d", "g", "e", "t">>, <<"f", "i", "n", "a", "n", "c", "e">>}, "BUDGET">>,
       <<{<<"p", "l", "a", "n", "n", "i", "n", "g">>, <<"p", "r", "o", "g", "r", "a", "m", "m", "e">>}, "PLANIFICATION">> >>

Titles(rows) == {rows[i].title : i \in 1..Len(rows)}

IsPrefix(s, t) == Len(s) <= Len(t) /\ \A i \in 1..Len(s) : t[i] = s[i]

Blank(q) == \A i \in 1..Len(q) : q[i] \in {" ", "\t", "\n", "\r"}

UserTurn(q) == [role |-> "user", content |-> q]
AssistantTurn(a) == [role |-> "assistant", content |-> a]

QuestionRuleTable ==
    << <<{<<"m", "a", "r", "i", "a", "g", "e">>, <<"n", "o", "c", "e", "s">>, <<"f", "i", "a", "n", "ç", "a", "i", "l", "l", "e", "s">>}, "MARIAGE">>,
       <<{<<"s", "a", "l", "o", "n">>, <<"e", "x", "p", "o", "s", "i", "t", "i", "o", "n">>, <<"s", "t", "a", "n", "d">>}, "SALON">>,
       <<{<<"a", "m", "b", "i", "a", "n", "c", "e">>, <<"t", "h", "è", "m", "e">>, <<"d", "é", "c", "o", "r", "a", "t", "i", "o", "n">>, <<"i", "d", "é", "e", "s">>, <<"c", "r", "é", "a", "t", "i", "f">>}, "CRÉATIVITÉ">>,
       <<{<<"b", "u", "d", "g", "e", "t">>, <<"f", "i", "n", "a", "n", "c", "e", "m", "e", "n", "t">>, <<"c", "o", "û", "t">>, <<"p", "r", "i", "x">>}, "BUDGET">>,
       <<{<<"p", "l", "a", "n", "n", "i", "n", "g">>, <<"p", "l", "a", "n", "i", "f", "i", "c", "a", "t", "i", "o", "n">>, <<"é", "t", "a", "p", "e", "s">>, <<"p", "r", "o", "g", "r", "a", "m", "m", "e">>}, "PLANIFICATION">> >>

\* C1: with calls in flight together, the template a call's generation
\* renders is the template of that call's own question category.
C1_NoPromptLeak ==
    \A c \in Calls :
        calls[c].used # NONE =>
            calls[c].used = prompt_map[detect_event_type(calls[c].question)]

\* C2: the documents table never holds two rows with the same title.
C2_UniqueTitles ==
    \A i, j \in 1..Len(documents) :
        documents[i].title = documents[j].title => i = j

\* a run over a list naming the same readable file twice stored it once
C2_Witness ==
    /\ pc = "ingested"
    /\ \E i, j \in 1..Len(PDF_PATHS) :
        /\ i < j
        /\ PDF_PATHS[i] = PDF_PATHS[j]
        /\ files[PDF_PATHS[i]].kind = "pdf"
        /\ title_count(documents, basename(PDF_PATHS[i])) = 1

C3_RunOutcome ==
    LET IsMissing(p) == files[p].kind = "missing"
        Throws(p) == files[p].kind = "corrupt"
        thrown == SelectSeq(PDF_PATHS, Throws)
        good == {i \in 1..Len(PDF_PATHS) : files[PDF_PATHS[i]].kind = "pdf"}
        goodTitles == {basename(PDF_PATHS[i]) : i \in good}
    IN  /\ pc' = "ingested"
        /\ missing_files' = SelectSeq(PDF_PATHS, IsMissing)
        /\ Len(errors') = Len(thrown)
        /\ \A k \in 1..Len(thrown) : errors'[k] = <<thrown[k], files[thrown[k]].msg>>
        /\ IsPrefix(documents, documents')
        /\ Titles(documents') = Titles(documents) \cup goodTitles
        /\ Len(documents') = Len(documents) + Cardinality(goodTitles \ Titles(documents))
        /\ \A k \in (Len(documents) + 1)..Len(documents') :
              \E i \in good :
                  /\ documents'[k].title = basename(PDF_PATHS[i])
                  /\ documents'[k].content = join("\n", files[PDF_PATHS[i]].pages)

\* C3: a run of insert_pdfs returns normally whatever the files are; it
\* lists the missing paths, prints each failing path with its error and
\* stores no row for it, stores every other readable path whose title is
\* new, before or after a bad path, and keeps the rows it has inserted.
C3_BatchNeverAborts == [][pc = "opened" /\ pc' # pc => C3_RunOutcome]_vars

\* a run stored a readable file before and another after a path that was
\* missing or threw
C3_Witness ==
    /\ pc = "ingested"
    /\ \E i, j, k \in 1..Len(PDF_PATHS) :
        /\ i < j /\ j < k
        /\ files[PDF_PATHS[i]].kind = "pdf"
        /\ files[PDF_PATHS[j]].kind = "corrupt"
        /\ files[PDF_PATHS[k]].kind = "pdf"
        /\ basename(PDF_PATHS[i]) # basename(PDF_PATHS[k])
        /\ <<PDF_PATHS[j], files[PDF_PATHS[j]].msg>> = errors[1]
        /\ \E m, n \in 1..Len(documents) :
              /\ m < n
              /\ documents[m].title = basename(PDF_PATHS[i])
              /\ documents[n].title = basename(PDF_PATHS[k])
              /\ documents[n].content = join("\n", files[PDF_PATHS[k]].pages)

\* C4: a blank or whitespace-only question returns the history as it was
\* with a non-empty status, and no generation is invoked for it.
C4_BlankRejected ==
    \A c \in Calls :
        (calls[c].at # "idle" /\ Blank(calls[c].question)) =>
            /\ calls[c].at = "returned"
            /\ calls[c].chat_display = chatbot
            /\ calls[c].status \notin {"", NONE}
            /\ calls[c].used = NONE
            /\ calls[c].answer = NONE

\* a whitespace-only question was rejected on a history that holds turns
C4_Witness ==
    \E c \in Calls :
        /\ calls[c].at = "returned"
        /\ Len(calls[c].question) > 0
        /\ Blank(calls[c].question)
        /\ Len(chatbot) > 0

\* C5: when the generation raises, the call still returns: the answer is
\* the fixed error message, the history advances by the user turn and the
\* assistant turn holding that message, and the call's outputs can be
\* delivered, after which the session takes further questions.
C5_GenerationFailureContained ==
    \A c \in Calls :
        calls[c].raised =>
            /\ calls[c].at \in {"append", "returned"}
            /\ calls[c].answer = GENERATION_ERROR
            /\ calls[c].at = "returned" =>
                  /\ calls[c].chat_display =
                        chatbot \o <<UserTurn(calls[c].question),
                                     AssistantTurn(GENERATION_ERROR)>>
                  /\ calls[c].status = ""

\* after an exchange that ended in the error message, a later question got
\* a model answer
C5_Witness ==
    \E c \in Calls :
        /\ calls[c].at = "returned"
        /\ ~calls[c].raised
        /\ Len(calls[c].chat_display) = 4
        /\ calls[c].chat_display[2] = AssistantTurn(GENERATION_ERROR)
        /\ calls[c].chat_display[4].content \notin {GENERATION_ERROR, NO_ANSWER}

\* C6: a process that has opened the connection has closed it when it
\* terminates.
C6_ConnectionReleased == pc = "terminated" => conn # "open"

C7_Returned ==
    \A c \in Calls :
        (calls[c].at = "returned" /\ ~Blank(calls[c].question)) =>
            /\ Len(calls[c].chat_display) = Len(chatbot) + 2
            /\ IsPrefix(chatbot, calls[c].chat_display)
            /\ calls[c].chat_display[Len(chatbot) + 1].role = "user"
            /\ calls[c].chat_display[Len(chatbot) + 2].role = "assistant"
            /\ calls[c].chat_display[Len(chatbot) + 1].content = calls[c].question
            /\ calls[c].chat_display[Len(chatbot) + 2].content = calls[c].answer
            /\ calls[c].status = ""

C7_Step ==
    \/ chatbot' = chatbot
    \/ chatbot' = <<>>
    \/ /\ Len(chatbot') = Len(chatbot) + 2
       /\ IsPrefix(chatbot, chatbot')
       /\ chatbot'[Len(chatbot) + 1].role = "user"
       /\ chatbot'[Len(chatbot) + 2].role = "assistant"
       /\ status_box' = ""

\* C7: one call at a time, an accepted question returns the history plus a
\* user turn with the question and an assistant turn with the answer, in
\* that order, with an empty status; the history only ever grows by such
\* a pair with the earlier turns in place, or is emptied as a whole.
C7_AppendOnlyHistory == []C7_Returned /\ [][C7_Step]_vars

\* two accepted questions are in the history, in the order asked
C7_Witness ==
    /\ Len(chatbot) = 4
    /\ chatbot[1].role = "user" /\ chatbot[2].role = "assistant"
    /\ chatbot[3].role = "user" /\ chatbot[4].role = "assistant"
    /\ chatbot[1].content # chatbot[3].content
    /\ status_box = ""

\* C8: for a question processed alone the template rendered is that of the
\* first matching question rule in the order MARIAGE, SALON, CRÉATIVITÉ,
\* BUDGET, PLANIFICATION, the SEMINAIRE one when none matches; "Quel budget
\* pour un mariage?" gets the MARIAGE template, not the BUDGET one.
C8_TemplateOfFirstRule ==
    \A c \in Calls :
        calls[c].used # NONE =>
            /\ calls[c].used = prompt_map[FirstMatch(QuestionRuleTable, calls[c].question)]
            /\ calls[c].question = <<"Q", "u", "e", "l", " ", "b", "u", "d", "g", "e", "t", " ", "p", "o", "u", "r", " ", "u", "n", " ", "m", "a", "r", "i", "a", "g", "e", "?">> =>
                  /\ calls[c].used = prompt_map["MARIAGE"]
                  /\ calls[c].used # prompt_map["BUDGET"]

\* the question with a wedding and a budget keyword was generated for
C8_Witness ==
    \E c \in Calls :
        /\ calls[c].question = <<"Q", "u", "e", "l", " ", "b", "u", "d", "g", "e", "t", " ", "p", "o", "u", "r", " ", "u", "n", " ", "m", "a", "r", "i", "a", "g", "e", "?">>
        /\ calls[c].used = "CONSEIL:"

\* C9: detect_type_from_filename is total and returns, letter case ignored,
\* the category of the first matching rule of the filename rule order, and
\* SEMINAIRE when no rule matches; a name containing "mariage" yields
\* MARIAGE whatever else it contains.
C9_FilenameFirstMatch ==
    fn_ret # NONE =>
        /\ fn_ret \in Categories
        /\ fn_ret = FirstMatch(FilenameRuleTable, fn_arg)
        /\ ContainsCI(<<"m", "a", "r", "i", "a", "g", "e">>, fn_arg) => fn_ret = "MARIAGE"
        /\ (\A r \in 1..Len(FilenameRuleTable) :
               \A kw \in FilenameRuleTable[r][1] : ~ContainsCI(kw, fn_arg))
           => fn_ret = "SEMINAIRE"

\* a name with "mariage" in capitals and a budget keyword was classified
C9_Witness ==
    /\ fn_ret = "MARIAGE"
    /\ ContainsCI(<<"b", "u", "d", "g", "e", "t">>, fn_arg)
    /\ ~In(<<"m", "a", "r", "i", "a", "g", "e">>, fn_arg)

\* C10: a stored row is never changed or removed: every row of the table
\* is in the table after any step, with the same content and category.
C10_RowsNeverUpdated ==
    [][\A i \in 1..Len(documents) :
          \E j \in 1..Len(documents') : documents'[j] = documents[i]]_vars

\* a run found a readable file whose title is stored with another text
\* than the file has now, and no other path has that title
C10_Witness ==
    /\ pc = "ingested"
    /\ \E i \in 1..Len(PDF_PATHS) :
        LET p == PDF_PATHS[i] IN
        /\ \A q \in Paths : basename(q) = basename(p) => q = p
        /\ files[p].kind = "pdf"
        /\ \E k \in 1..Len(documents) :
              /\ documents[k].title = basename(p)
              /\ documents[k].content # join("\n", files[p].pages)

====
